---- MODULE Spec2Model ----
(***************************************************************************)
(* Resource binding stream feature (BindCustom) of the xmpp package:       *)
(* the applicability masks, Parse, and both branches of Negotiate.         *)
(*                                                                         *)
(* Strings that the code takes apart (the string form of a JID) are        *)
(* sequences of atoms: <<"user", "@", "example.com", "/", "orig">>.        *)
(***************************************************************************)
EXTENDS Integers, Sequences, FiniteSets, TLC

\* Bound on the number of Negotiate calls made on the session.
MaxCalls == 2

(***************************************************************************)
(* Session state flags (a bit mask).                                       *)
(***************************************************************************)
Secure == 1
Authn == 2
Ready == 4
Received == 8

AllFlags == 0..15

RECURSIVE And(_, _)
And(a, b) ==
  IF a = 0 \/ b = 0 THEN 0
  ELSE (a % 2) * (b % 2) + 2 * And(a \div 2, b \div 2)

Or(a, b) == a + b - And(a, b)

\* the flag f (a single bit) is set in the mask s
HasFlag(s, f) == (s \div f) % 2 = 1

(***************************************************************************)
(* Feature descriptor of BindCustom.                                       *)
(***************************************************************************)
NecessaryWithSecure == Or(Authn, Secure)

Necessary == Authn

ProhibitedReceived == Received

Prohibited == Ready

applicable(s) == And(s, Necessary) = Necessary /\ And(s, Prohibited) = 0

(***************************************************************************)
(* Errors.  A nil error is NoErr.                                          *)
(***************************************************************************)
Err(k, c) == [kind |-> k, cond |-> c]

NoErr == Err("nil", "")

IOErr == Err("io", "")

BadFormat == Err("stream", "bad-format")

UndefinedCondition == Err("stream", "undefined-condition")

BadRequest == "bad-request"

StanzaError(c) == Err("stanza", c)

(***************************************************************************)
(* Addresses.  A *jid.JID is a record; the nil pointer is NilJID.          *)
(***************************************************************************)
JID(l, d, r) == [nil |-> FALSE, local |-> l, domain |-> d, resource |-> r]

NilJID == [nil |-> TRUE, local |-> "", domain |-> "", resource |-> ""]

\* jid.New: the parts are validated; an address without a domainpart is
\* rejected.
New(l, d, r) ==
  IF d = "" THEN [j |-> NilJID, err |-> Err("jid", "invalid")]
  ELSE [j |-> JID(l, d, r), err |-> NoErr]

\* (*jid.JID).String: [local "@"] domain ["/" resource]
String(j) ==
  (IF j.local # "" THEN <<j.local, "@">> ELSE <<>>) \o <<j.domain>>
    \o (IF j.resource # "" THEN <<"/", j.resource>> ELSE <<>>)

\* index of the first occurrence of the atom c in s, 0 if there is none
IndexOf(s, c) ==
  IF \E i \in 1..Len(s) : s[i] = c
  THEN CHOOSE i \in 1..Len(s) : s[i] = c /\ \A k \in 1..(i - 1) : s[k] # c
  ELSE 0

\* jid.Parse (used by (*jid.JID).UnmarshalXML): split at the first "/" and,
\* before it, at the first "@"; a separator with nothing on its side and an
\* empty domainpart are errors.
ParseJID(s) ==
  LET slash  == IndexOf(s, "/")
      before == IF slash = 0 THEN s ELSE SubSeq(s, 1, slash - 1)
      after  == IF slash = 0 THEN <<>> ELSE SubSeq(s, slash + 1, Len(s))
      at     == IndexOf(before, "@")
      lpart  == IF at = 0 THEN <<>> ELSE SubSeq(before, 1, at - 1)
      dpart  == IF at = 0 THEN before ELSE SubSeq(before, at + 1, Len(before))
      bad    == \/ slash # 0 /\ Len(after) # 1
                \/ at # 0 /\ Len(lpart) # 1
                \/ Len(dpart) # 1
  IN IF bad THEN [j |-> NilJID, err |-> Err("jid", "invalid")]
     ELSE New(IF at = 0 THEN "" ELSE lpart[1], dpart[1],
              IF slash = 0 THEN "" ELSE after[1])

(***************************************************************************)
(* XML tokens and elements.                                                *)
(***************************************************************************)
NsBind == "urn:ietf:params:xml:ns:xmpp-bind"

NsClient == "jabber:client"

\* a token written to the session's encoder
Tok(k, sp, l, t) == [kind |-> k, space |-> sp, local |-> l, text |-> t]

\* the tokens of the response written by the receiving branch
BindResponse(j) ==
  << Tok("StartElement", NsBind, "bind", <<>>),
     Tok("StartElement", "", "jid", <<>>),
     Tok("CharData", "", "", String(j)),
     Tok("EndElement", "", "jid", <<>>),
     Tok("EndElement", NsBind, "bind", <<>>) >>

\* the IQ written by the initiating branch: one element, type "set", with a
\* bind child whose resource child is left out when empty (omitempty)
BindElement(sp, l, res, wf) ==
  [space |-> sp, local |-> l, text |-> IF res = "" THEN <<>> ELSE <<res>>,
   wellformed |-> wf]

ClientRequest(id, res) ==
  [kind |-> "Element", space |-> "", local |-> "iq", id |-> id, type |-> "set",
   bind |-> BindElement(NsBind, "bind", res, TRUE)]

\* what the peer puts on the session's decoder: one token, and for a start
\* element the content that DecodeElement will find behind it
PeerTok(k, sp, l, wf, id, ty, hasJID, jt, c) ==
  [kind |-> k, space |-> sp, local |-> l, wellformed |-> wf, id |-> id,
   type |-> ty, hasJID |-> hasJID, jid |-> jt, cond |-> c]

NoTok == PeerTok("none", "", "", TRUE, "", "", FALSE, <<>>, "")

(***************************************************************************)
(* List: writes the start tag it is given and its end tag, and flushes.    *)
(* failAt is the call that fails (1, 2 an EncodeToken, 3 the Flush, 0      *)
(* none).                                                                  *)
(***************************************************************************)
Listed(r, e, w, fl) == [req |-> r, err |-> e, written |-> w, flushed |-> fl]

ListOptionalOnError(start, failAt) ==
  IF failAt = 1 THEN Listed(FALSE, IOErr, <<>>, FALSE)
  ELSE IF failAt = 2
  THEN Listed(FALSE, IOErr, << Tok("StartElement", start.space, start.local, <<>>) >>, FALSE)
  ELSE Listed(failAt = 0, IF failAt = 3 THEN IOErr ELSE NoErr,
              << Tok("StartElement", start.space, start.local, <<>>),
                 Tok("EndElement", start.space, start.local, <<>>) >>,
              failAt = 0)

List(start, failAt) ==
  IF failAt = 1 THEN Listed(TRUE, IOErr, <<>>, FALSE)
  ELSE IF failAt = 2
  THEN Listed(TRUE, IOErr, << Tok("StartElement", start.space, start.local, <<>>) >>, FALSE)
  ELSE Listed(TRUE, IF failAt = 3 THEN IOErr ELSE NoErr,
              << Tok("StartElement", start.space, start.local, <<>>),
                 Tok("EndElement", start.space, start.local, <<>>) >>,
              failAt = 0)

(***************************************************************************)
(* Parse: decodes the element into a struct that has only the element      *)
(* name, and returns nil data.                                             *)
(***************************************************************************)
StringData(s) == [isString |-> TRUE, str |-> s]

NilData == [isString |-> FALSE, str |-> ""]

Parse(el) ==
  [ok |-> TRUE,
   data |-> NilData,
   err |-> IF el.wellformed /\ el.space = NsBind /\ el.local = "bind"
           THEN NoErr ELSE Err("xml", "decode")]

(***************************************************************************)
(* Negotiate, receiving branch (the session has Received set).             *)
(***************************************************************************)
\* the function given to BindCustom: none, one that assigns the requested
\* resource, or one that refuses
ServerFuncs == {"nil", "assign", "reject"}

server(f, addr, requested) ==
  IF f = "assign" THEN New(addr.local, addr.domain, requested)
  ELSE [j |-> NilJID, err |-> Err("assign", "conflict")]

AssignKeepResource(f, addr, d, rid) ==
  IF f # "nil" THEN server(f, addr, d.str)
  ELSE New(addr.local, addr.domain, addr.resource)

AssignRequested(f, addr, d, rid) ==
  IF f # "nil" THEN server(f, addr, d.str)
  ELSE New(addr.local, addr.domain, IF d.isString /\ d.str # "" THEN d.str ELSE rid)

\* lines 68-77: the address to bind; rid is the value of internal.RandomID()
Assign(f, addr, d, rid) ==
  IF f # "nil" THEN server(f, addr, d.str)
  ELSE New(addr.local, addr.domain, rid)

\* data.(string) panics unless data holds a string
Panics(f, d) == f # "nil" /\ ~d.isString

OutcomeReady(p, j, e, w, fl) ==
  [panic |-> p, j |-> j, mask |-> IF e = NoErr /\ ~p THEN Ready ELSE 0, rw |-> "nil",
   err |-> e, written |-> w, flushed |-> fl]

Outcome(p, j, e, w, fl) ==
  [panic |-> p, j |-> j, mask |-> 0, rw |-> "nil", err |-> e,
   written |-> w, flushed |-> fl]

EmitThenFail(j, e, failAt) ==
  IF e # NoErr THEN Outcome(FALSE, NilJID, e, BindResponse(j), TRUE)
  ELSE IF failAt \in 1..5
  THEN Outcome(FALSE, j, IOErr, SubSeq(BindResponse(j), 1, failAt - 1), FALSE)
  ELSE IF failAt = 6 THEN Outcome(FALSE, j, IOErr, BindResponse(j), FALSE)
  ELSE Outcome(FALSE, j, NoErr, BindResponse(j), TRUE)

\* lines 78-98: failAt is the write that fails (1..5 an EncodeToken, 6 the
\* Flush, 0 none)
Emit(j, e, failAt) ==
  IF e # NoErr THEN Outcome(FALSE, NilJID, e, <<>>, FALSE)
  ELSE IF failAt \in 1..5
  THEN Outcome(FALSE, j, IOErr, SubSeq(BindResponse(j), 1, failAt - 1), FALSE)
  ELSE IF failAt = 6 THEN Outcome(FALSE, j, IOErr, BindResponse(j), FALSE)
  ELSE Outcome(FALSE, j, NoErr, BindResponse(j), TRUE)

\* a call on the encoder or the decoder, and whether it succeeded
Call(op, ok) == [op |-> op, ok |-> ok]

\* lines 83-98: the calls made on the encoder once an address is assigned
EmitCalls(failAt) ==
  [i \in 1..(IF failAt = 0 THEN 6 ELSE failAt) |->
     Call(IF i = 6 THEN "Flush" ELSE "EncodeToken", i # failAt)]

ReceivingBranch(f, addr, d, rid, failAt) ==
  IF Panics(f, d) THEN Outcome(TRUE, NilJID, NoErr, <<>>, FALSE)
  ELSE LET a == Assign(f, addr, d, rid) IN Emit(a.j, a.err, failAt)

(***************************************************************************)
(* Negotiate, initiating branch.                                           *)
(***************************************************************************)
\* d.DecodeElement(&resp, &start): fails on malformed content and on a jid
\* child whose text is no valid address
DecodeElement(tok) ==
  LET p == IF tok.hasJID THEN ParseJID(tok.jid) ELSE [j |-> NilJID, err |-> NoErr]
  IN [id |-> tok.id, type |-> tok.type, jid |-> p.j, Err |-> StanzaError(tok.cond),
      err |-> IF ~tok.wellformed THEN Err("xml", "decode") ELSE p.err]

Requested(w, e, io) == [written |-> w, err |-> e, io |-> io]

EncodeRequestRetry(rid, res, fails) ==
  IF fails
  THEN Requested(<< ClientRequest(rid, res) >>, NoErr,
                 << Call("Encode", FALSE), Call("Encode", TRUE) >>)
  ELSE Requested(<< ClientRequest(rid, res) >>, NoErr, << Call("Encode", TRUE) >>)

\* lines 102-122: one e.Encode of the request
EncodeRequest(rid, res, fails) ==
  IF fails THEN Requested(<<>>, IOErr, << Call("Encode", FALSE) >>)
  ELSE Requested(<< ClientRequest(rid, res) >>, NoErr, << Call("Encode", TRUE) >>)

Result(m, e, set, j, dec, r) ==
  [mask |-> m, rw |-> "nil", err |-> e, setOrigin |-> set, origin |-> j,
   decoded |-> dec, resp |-> r]

NoResp == [id |-> "", type |-> "", jid |-> NilJID, Err |-> StanzaError(""), err |-> NoErr]

SwitchNoRecord(resp, reqID) ==
  IF resp.id # reqID THEN Result(0, UndefinedCondition, FALSE, NilJID, TRUE, resp)
  ELSE IF resp.type = "result" THEN Result(Ready, NoErr, FALSE, NilJID, TRUE, resp)
  ELSE IF resp.type = "error" THEN Result(0, resp.Err, FALSE, NilJID, TRUE, resp)
  ELSE Result(0, StanzaError(BadRequest), FALSE, NilJID, TRUE, resp)

SwitchKindFirst(resp, reqID) ==
  IF resp.type = "result" THEN Result(Ready, NoErr, TRUE, resp.jid, TRUE, resp)
  ELSE IF resp.type = "error" THEN Result(0, resp.Err, FALSE, NilJID, TRUE, resp)
  ELSE IF resp.id # reqID THEN Result(0, UndefinedCondition, FALSE, NilJID, TRUE, resp)
  ELSE Result(0, StanzaError(BadRequest), FALSE, NilJID, TRUE, resp)

SwitchGenericError(resp, reqID) ==
  IF resp.id # reqID THEN Result(0, UndefinedCondition, FALSE, NilJID, TRUE, resp)
  ELSE IF resp.type = "result" THEN Result(Ready, NoErr, TRUE, resp.jid, TRUE, resp)
  ELSE Result(0, StanzaError(BadRequest), FALSE, NilJID, TRUE, resp)

SwitchMaskOnError(resp, reqID) ==
  IF resp.id # reqID THEN Result(0, UndefinedCondition, FALSE, NilJID, TRUE, resp)
  ELSE IF resp.type = "result" THEN Result(Ready, NoErr, TRUE, resp.jid, TRUE, resp)
  ELSE IF resp.type = "error" THEN Result(Ready, resp.Err, FALSE, NilJID, TRUE, resp)
  ELSE Result(0, StanzaError(BadRequest), FALSE, NilJID, TRUE, resp)

SwitchOtherIsPeerError(resp, reqID) ==
  IF resp.id # reqID THEN Result(0, UndefinedCondition, FALSE, NilJID, TRUE, resp)
  ELSE IF resp.type = "result" THEN Result(Ready, NoErr, TRUE, resp.jid, TRUE, resp)
  ELSE Result(0, resp.Err, FALSE, NilJID, TRUE, resp)

SwitchRecordOnError(resp, reqID) ==
  IF resp.id # reqID THEN Result(0, UndefinedCondition, FALSE, NilJID, TRUE, resp)
  ELSE IF resp.type = "result" THEN Result(Ready, NoErr, TRUE, resp.jid, TRUE, resp)
  ELSE IF resp.type = "error" THEN Result(0, resp.Err, TRUE, resp.jid, TRUE, resp)
  ELSE Result(0, StanzaError(BadRequest), FALSE, NilJID, TRUE, resp)

SwitchReadyOnOther(resp, reqID) ==
  IF resp.id # reqID THEN Result(0, UndefinedCondition, FALSE, NilJID, TRUE, resp)
  ELSE IF resp.type = "result" THEN Result(Ready, NoErr, TRUE, resp.jid, TRUE, resp)
  ELSE IF resp.type = "error" THEN Result(0, resp.Err, FALSE, NilJID, TRUE, resp)
  ELSE Result(Ready, NoErr, FALSE, NilJID, TRUE, resp)

\* lines 155-165
Switch(resp, reqID) ==
  IF resp.id # reqID THEN Result(0, UndefinedCondition, FALSE, NilJID, TRUE, resp)
  ELSE IF resp.type = "result" THEN Result(Ready, NoErr, TRUE, resp.jid, TRUE, resp)
  ELSE IF resp.type = "error" THEN Result(0, resp.Err, FALSE, NilJID, TRUE, resp)
  ELSE Result(0, StanzaError(BadRequest), FALSE, NilJID, TRUE, resp)

ReadResponseAnyElement(tok, reqID) ==
  IF tok.kind = "Error" THEN Result(0, IOErr, FALSE, NilJID, FALSE, NoResp)
  ELSE IF tok.kind # "StartElement"
  THEN Result(0, BadFormat, FALSE, NilJID, FALSE, NoResp)
  ELSE LET resp == DecodeElement(tok)
       IN IF resp.err # NoErr
          THEN Result(0, resp.err, FALSE, NilJID, TRUE, resp)
          ELSE Switch(resp, reqID)

\* lines 131-153
ReadResponse(tok, reqID) ==
  IF tok.kind = "Error" THEN Result(0, IOErr, FALSE, NilJID, FALSE, NoResp)
  ELSE IF tok.kind # "StartElement"
  THEN Result(0, BadFormat, FALSE, NilJID, FALSE, NoResp)
  ELSE IF ~(tok.space = NsClient /\ tok.local = "iq")
  THEN Result(0, BadFormat, FALSE, NilJID, FALSE, NoResp)
  ELSE LET resp == DecodeElement(tok)
       IN IF resp.err # NoErr
          THEN Result(0, resp.err, FALSE, NilJID, TRUE, resp)
          ELSE Switch(resp, reqID)

\* lines 131-150: the calls made on the decoder, r being what ReadResponse
\* found
ReadCalls(tok, r) ==
  << Call("Token", tok.kind # "Error") >>
    \o (IF r.decoded THEN << Call("DecodeElement", r.resp.err = NoErr) >> ELSE <<>>)

(***************************************************************************)
(* The values the model draws from.                                        *)
(***************************************************************************)
RandomIDs == {"id1", "id2"}

RemoteAddrs == {JID("user", "example.com", "orig"), JID("", "", "")}

ServerAddr == JID("", "example.com", "")

ConfigResources == {"", "home"}

IQTypes == {"get", "set", "result", "error"}

Conditions == {"", "not-allowed", BadRequest}

JIDTexts ==
  { String(JID("user", "example.com", "id1")), String(JID("", "example.com", "")),
    <<"@", "example.com">> }

\* the start tags List is called with
StartElements == { [space |-> NsBind, local |-> "bind"], [space |-> "", local |-> "x"] }

\* the bind elements a peer sends to the receiving party: those an
\* initiating party writes, and elements Parse rejects
BindRequests ==
  { ClientRequest(id, res).bind : id \in RandomIDs, res \in ConfigResources }
    \cup { BindElement(NsBind, "bind", "", FALSE), BindElement(NsClient, "bind", "", TRUE) }

\* what a peer may send to the initiating party
PeerToks(reqID) ==
  { PeerTok(k, "", "", TRUE, "", "", FALSE, <<>>, "") : k \in {"Error", "CharData", "EndElement"} }
    \cup { PeerTok("StartElement", n[1], n[2], TRUE, "", "", FALSE, <<>>, "") :
             n \in {<<"jabber:server", "iq">>, <<NsClient, "message">>, <<NsBind, "bind">>} }
    \cup { PeerTok("StartElement", NsClient, "iq", FALSE, "", "", FALSE, <<>>, "") }
    \cup { PeerTok("StartElement", NsClient, "iq", TRUE, id, ty, FALSE, <<>>, c) :
             id \in {reqID, "id0"}, ty \in IQTypes, c \in Conditions }
    \cup { PeerTok("StartElement", NsClient, "iq", TRUE, id, ty, TRUE, jt, c) :
             id \in {reqID, "id0"}, ty \in IQTypes, jt \in JIDTexts, c \in Conditions }

(***************************************************************************)
(* State.                                                                  *)
(***************************************************************************)
VARIABLES
  state,      \* session.State()
  remote,     \* session.RemoteAddr()
  cfgRes,     \* session.Config().Origin.Resourcepart()
  srv,        \* the server function BindCustom was given
  origin,     \* session.origin
  origin0,    \* session.origin when the running or last Negotiate call began
  pc,         \* where the negotiation of the feature stands
  calls,      \* Negotiate calls made so far
  app,        \* whether the feature was applicable when Negotiate was called
  request,    \* the bind element handed to Parse
  parsed,     \* what Parse returned
  data,       \* the data argument of the running or last Negotiate call
  reqID,      \* reqID of the running or last initiating call
  inp,        \* the token waiting on the session's decoder
  peerJID,    \* the address a receiving peer computed for the token in inp
  res,        \* what the last read of the response found
  ret,        \* what the last Negotiate call returned
  written,    \* what the last Negotiate call wrote to the encoder
  flushed,    \* whether the last Negotiate call ended in a successful flush
  assigned,   \* the address the receiving branch assigned
  cancelled,  \* whether the ctx of the running Negotiate call is cancelled
  list,       \* the arguments and the results of the List call that just returned
  state0,     \* session.State() when the session was constructed
  io,         \* the calls the running or last Negotiate call made on the stream
  writes      \* the number of assignments made to session.origin

vars ==
  << state, remote, cfgRes, srv, origin, origin0, pc, calls, app, request, parsed, data,
     reqID, inp, peerJID, res, ret, written, flushed, assigned, cancelled, list,
     state0, io, writes >>

Ret(m, e) == [mask |-> m, rw |-> "nil", err |-> e]

NoParse == [ok |-> FALSE, data |-> NilData, err |-> NoErr]

NoRes == Result(0, NoErr, FALSE, NilJID, FALSE, NoResp)

NoList == [start |-> [space |-> "", local |-> ""], failAt |-> 0,
           out |-> Listed(FALSE, NoErr, <<>>, FALSE)]

\* A session that has Received set is a server's: its remote address is a
\* client's and its own resourcepart is empty.  A session without it is a
\* client's: its remote address is the server's, and the server function is
\* not used (BindCustom is then identical to BindResource).
Init ==
  /\ state \in AllFlags
  /\ remote \in (IF HasFlag(state, Received) THEN RemoteAddrs ELSE {ServerAddr})
  /\ cfgRes \in (IF HasFlag(state, Received) THEN {""} ELSE ConfigResources)
  /\ srv \in (IF HasFlag(state, Received) THEN ServerFuncs ELSE {"nil"})
  /\ origin = NilJID
  /\ origin0 = NilJID
  /\ pc = "idle"
  /\ calls = 0
  /\ app = FALSE
  /\ request = BindElement("", "", "", TRUE)
  /\ parsed = NoParse
  /\ data = NilData
  /\ reqID = ""
  /\ inp = NoTok
  /\ peerJID = NilJID
  /\ res = NoRes
  /\ ret = Ret(0, NoErr)
  /\ written = <<>>
  /\ flushed = FALSE
  /\ assigned = NilJID
  /\ cancelled = FALSE
  /\ list = NoList
  /\ state0 = state
  /\ io = <<>>
  /\ writes = 0

\* the engine advertises the feature, before it negotiates it
Advertise ==
  /\ pc = "idle"
  /\ calls = 0
  /\ \E start \in StartElements, failAt \in 0..3 :
       list' = [start |-> start, failAt |-> failAt, out |-> List(start, failAt)]
  /\ pc' = "listed"
  /\ UNCHANGED << state, remote, cfgRes, srv, origin, origin0, calls, app, request,
                  parsed, data, reqID, inp, peerJID, res, ret, written, flushed,
                  assigned, cancelled >>
  /\ UNCHANGED << state0, io, writes >>

\* the engine goes on after List
Advertised ==
  /\ pc = "listed"
  /\ pc' = "idle"
  /\ list' = NoList
  /\ UNCHANGED << state, remote, cfgRes, srv, origin, origin0, calls, app, request,
                  parsed, data, reqID, inp, peerJID, res, ret, written, flushed,
                  assigned, cancelled >>
  /\ UNCHANGED << state0, io, writes >>

\* the engine hands the peer's bind element to Parse
ParseRequest ==
  /\ pc = "idle"
  /\ calls < MaxCalls
  /\ And(state, Received) = Received
  /\ \E el \in BindRequests :
       /\ request' = el
       /\ parsed' = Parse(el)
       /\ pc' = IF Parse(el).err = NoErr THEN "parsed" ELSE "idle"
  /\ UNCHANGED << state, remote, cfgRes, srv, origin, origin0, calls, app, data,
                  reqID, inp, peerJID, res, ret, written, flushed, assigned >>
  /\ UNCHANGED << cancelled, list, state0, io, writes >>

\* Negotiate on a session that has Received set, with data d
Receiving(d) ==
  /\ calls < MaxCalls
  /\ And(state, Received) = Received
  /\ \E rid \in RandomIDs, failAt \in 0..6 :
       LET o == ReceivingBranch(srv, remote, d, rid, failAt)
       IN /\ pc' = IF o.panic THEN "panicked" ELSE "done"
          /\ ret' = Ret(o.mask, o.err)
          /\ written' = o.written
          /\ flushed' = o.flushed
          /\ assigned' = o.j
          /\ io' = IF o.panic \/ o.j = NilJID THEN <<>> ELSE EmitCalls(failAt)
  /\ calls' = calls + 1
  /\ app' = applicable(state)
  /\ data' = d
  /\ origin0' = origin
  /\ UNCHANGED << state, remote, cfgRes, srv, origin, reqID, inp, peerJID, res >>
  /\ UNCHANGED << cancelled, list, state0, writes >>

\* the engine passes on what Parse returned
NegotiateParsed ==
  /\ pc = "parsed"
  /\ Receiving(parsed.data)
  /\ UNCHANGED << request, parsed >>

\* a caller passes a string of its own
NegotiateString ==
  /\ pc = "idle"
  /\ \E s \in ConfigResources : Receiving(StringData(s))
  /\ request' = BindElement("", "", "", TRUE)
  /\ parsed' = NoParse

\* Negotiate on a session without Received, up to the read of the response:
\* lines 101-122
NegotiateRequest ==
  /\ pc = "idle"
  /\ calls < MaxCalls
  /\ And(state, Received) # Received
  /\ \E rid \in RandomIDs, fails \in BOOLEAN :
       LET q == EncodeRequest(rid, cfgRes, fails)
       IN /\ reqID' = rid
          /\ pc' = IF q.err # NoErr THEN "done" ELSE "await"
          /\ ret' = Ret(0, q.err)
          /\ written' = q.written
          /\ io' = q.io
  /\ calls' = calls + 1
  /\ app' = applicable(state)
  /\ flushed' = FALSE
  /\ inp' = NoTok
  /\ peerJID' = NilJID
  /\ res' = NoRes
  /\ origin0' = origin
  /\ UNCHANGED << state, remote, cfgRes, srv, origin, request, parsed, data,
                  assigned >>
  /\ cancelled' = FALSE
  /\ UNCHANGED << list, state0, writes >>

\* the peer answers (or the connection fails)
PeerSend ==
  /\ pc = "await"
  /\ inp = NoTok
  /\ inp' \in PeerToks(reqID)
  /\ UNCHANGED << state, remote, cfgRes, srv, origin, origin0, pc, calls, app, request,
                  parsed, data, reqID, peerJID, res, ret, written, flushed, assigned >>
  /\ UNCHANGED << cancelled, list, state0, io, writes >>

\* the peer is a receiving party without a server function: it binds an
\* address and the address is sent back as the result of the request
PeerBind ==
  /\ pc = "await"
  /\ inp = NoTok
  /\ \E addr \in RemoteAddrs, rid \in RandomIDs :
       LET o == ReceivingBranch("nil", addr, NilData, rid, 0)
       IN /\ o.err = NoErr
          /\ inp' = PeerTok("StartElement", NsClient, "iq", TRUE, reqID, "result",
                            TRUE, o.written[3].text, "")
          /\ peerJID' = o.j
  /\ UNCHANGED << state, remote, cfgRes, srv, origin, origin0, pc, calls, app, request,
                  parsed, data, reqID, res, ret, written, flushed, assigned >>
  /\ UNCHANGED << cancelled, list, state0, io, writes >>

\* the caller cancels ctx (or its deadline passes) while Negotiate waits for
\* the response; Negotiate does not read ctx
Cancel ==
  /\ pc = "await"
  /\ ~cancelled
  /\ cancelled' = TRUE
  /\ UNCHANGED << state, remote, cfgRes, srv, origin, origin0, pc, calls, app, request,
                  parsed, data, reqID, inp, peerJID, res, ret, written, flushed, assigned,
                  list >>
  /\ UNCHANGED << state0, io, writes >>

\* the rest of the initiating branch: lines 131-165
NegotiateResponse ==
  /\ pc = "await"
  /\ inp # NoTok
  /\ LET r == ReadResponse(inp, reqID)
     IN /\ res' = r
        /\ ret' = Ret(r.mask, r.err)
        /\ origin' = IF r.setOrigin THEN r.origin ELSE origin
  /\ pc' = "done"
  /\ UNCHANGED << state, remote, cfgRes, srv, origin0, calls, app, request, parsed,
                  data, reqID, inp, peerJID, written, flushed, assigned >>
  /\ cancelled' = FALSE
  /\ io' = io \o ReadCalls(inp, ReadResponse(inp, reqID))
  /\ writes' = IF ReadResponse(inp, reqID).setOrigin THEN writes + 1 ELSE writes
  /\ UNCHANGED << list, state0 >>

\* the caller merges the returned mask into the session state
Merge ==
  /\ pc = "done"
  /\ state' = IF ret.err = NoErr THEN Or(state, ret.mask) ELSE state
  /\ pc' = "idle"
  /\ UNCHANGED << remote, cfgRes, srv, origin, origin0, calls, app, request, parsed, data,
                  reqID, inp, peerJID, res, ret, written, flushed, assigned >>
  /\ UNCHANGED << cancelled, list, state0, io, writes >>

Next ==
  \/ Advertise
  \/ Advertised
  \/ ParseRequest
  \/ NegotiateParsed
  \/ NegotiateString
  \/ NegotiateRequest
  \/ PeerSend
  \/ PeerBind
  \/ Cancel
  \/ NegotiateResponse
  \/ Merge

Spec == Init /\ [][Next]_vars

\* the engine: it advertises, parses and negotiates the feature only in a
\* session state in which the feature is applicable
EngineNext ==
  \/ applicable(state) /\ Advertise
  \/ Advertised
  \/ applicable(state) /\ ParseRequest
  \/ NegotiateParsed
  \/ applicable(state) /\ NegotiateString
  \/ applicable(state) /\ NegotiateRequest
  \/ PeerSend
  \/ PeerBind
  \/ Cancel
  \/ NegotiateResponse
  \/ Merge

SpecEngine == Init /\ [][EngineNext]_vars

(***************************************************************************)
(* Vocabulary of the properties.                                           *)
(***************************************************************************)
Initiating == ~HasFlag(state, Received)

\* an initiating call has returned after reading a token
Answered == pc = "done" /\ Initiating /\ inp # NoTok

\* a receiving call has returned
Served == pc = "done" /\ HasFlag(state, Received)

IsIQ(tok) == tok.kind = "StartElement" /\ tok.space = NsClient /\ tok.local = "iq"

\* the element behind the start token decodes into the response struct
Decodes(tok) == tok.wellformed /\ (tok.hasJID => ParseJID(tok.jid).err = NoErr)

\* the address carried by the jid child of the response, nil without one
Nested(tok) == IF tok.hasJID THEN ParseJID(tok.jid).j ELSE NilJID

\* C1: in the initiating role, a decoded iq response in the client
\* namespace with the id of the request and type "result" makes Negotiate
\* record the address nested in it as session.origin and return Ready with
\* no error; when the response carries the address a receiving party bound,
\* the address recorded is that address.
C1_ResultRecordsAddress ==
  (Answered /\ IsIQ(inp) /\ Decodes(inp) /\ inp.id = reqID /\ inp.type = "result")
    => /\ origin = Nested(inp)
       /\ ret = Ret(Ready, NoErr)
       /\ (peerJID # NilJID => origin = peerJID)

C1_Witness ==
  /\ Answered /\ IsIQ(inp) /\ inp.id = reqID /\ inp.type = "result"
  /\ peerJID # NilJID /\ peerJID.resource \in RandomIDs
  /\ origin0 = NilJID /\ origin = peerJID
  /\ ret = Ret(Ready, NoErr)

\* C2: in the initiating role, a decoded response whose id differs from the
\* id of the request makes Negotiate fail with stream.UndefinedCondition,
\* with no Ready flag and session.origin as it was, whatever its type and
\* payload.
C2_IdMismatchIsCorrelationError ==
  (Answered /\ IsIQ(inp) /\ Decodes(inp) /\ inp.id # reqID)
    => /\ ret.err = UndefinedCondition
       /\ And(ret.mask, Ready) = 0
       /\ origin = origin0

C2_Witness ==
  /\ Answered /\ IsIQ(inp) /\ Decodes(inp) /\ inp.id # reqID
  /\ inp.type = "result" /\ inp.hasJID
  /\ ret.err = UndefinedCondition /\ origin = NilJID

\* C3: in the initiating role, a decoded response with the id of the request
\* and type "error" makes Negotiate fail with the error detail of the
\* response, unchanged, and the returned mask does not contain Ready.
C3_ErrorResponseSurfacesDetail ==
  (Answered /\ IsIQ(inp) /\ Decodes(inp) /\ inp.id = reqID /\ inp.type = "error")
    => /\ ret.err = StanzaError(inp.cond)
       /\ And(ret.mask, Ready) = 0

C3_Witness ==
  /\ Answered /\ IsIQ(inp) /\ Decodes(inp) /\ inp.id = reqID /\ inp.type = "error"
  /\ inp.cond = "not-allowed"
  /\ ret.err = StanzaError("not-allowed")
  /\ ret.mask = 0

\* C4: in both roles, a Negotiate call that returns an error returns the
\* empty mask and no replacement stream.
C4_ErrorMeansEmptyDelta ==
  (pc = "done" /\ ret.err # NoErr) => (ret.mask = 0 /\ ret.rw = "nil")

C4_Witness ==
  /\ Answered /\ IsIQ(inp) /\ inp.id = reqID /\ inp.type = "error"
  /\ ret.err # NoErr /\ ret.mask = 0

\* C5: the feature is applicable in a session state iff Authn is set and
\* Ready is not, whatever the other bits; clearing Authn or setting Ready in
\* an applicable state makes it inapplicable.
C5_ApplicableIffAuthnAndNotReady ==
  /\ applicable(state) <=> (HasFlag(state, Authn) /\ ~HasFlag(state, Ready))
  /\ applicable(state) =>
       /\ ~applicable(state - Authn)
       /\ ~applicable(state + Ready)
  /\ (pc \in {"await", "done"}) =>
       (app <=> (HasFlag(state, Authn) /\ ~HasFlag(state, Ready)))

C5_Witness ==
  /\ pc = "done" /\ app
  /\ HasFlag(state, Authn) /\ ~HasFlag(state, Secure) /\ HasFlag(state, Received)

\* a request for the resource "home" went through the receiving branch
\* without a server function, and the call succeeded: the request was handed
\* to Parse and Negotiate ran on what Parse returned, or Negotiate was given
\* the requested resource itself
HomeRequestServed ==
  /\ Served /\ srv = "nil" /\ ret.err = NoErr
  /\ \/ parsed.ok /\ request.text = <<"home">>
     \/ data = StringData("home")

\* C6 as stated: in the receiving role without a server function, a bind
\* request for the resource "home" yields a final address with resourcepart
\* "home".
C6_Original == HomeRequestServed => assigned.resource = "home"

\* C6 as amended: in the receiving role without a server function, a bind
\* request for the resource "home" yields a final address whose resourcepart
\* is a generated token and not "home": the requested resource is not used.
C6_HomeRequestGetsGeneratedResource ==
  HomeRequestServed =>
    /\ assigned.resource \in RandomIDs
    /\ assigned.resource # "home"
    /\ written[3].text = String(assigned)

C6_Witness ==
  /\ HomeRequestServed /\ parsed.ok /\ request.text = <<"home">>
  /\ assigned = JID("user", "example.com", "id2")
  /\ flushed

\* C7: in the receiving role without a server function, the address written
\* in the response has the localpart and domainpart of session.RemoteAddr()
\* and a generated, non-empty resourcepart, not the resourcepart of the
\* remote address.
C7_DefaultAddressKeepsLocalAndDomain ==
  (Served /\ srv = "nil" /\ Len(written) >= 3)
    => /\ written[3].text = String(assigned)
       /\ assigned.local = remote.local
       /\ assigned.domain = remote.domain
       /\ assigned.resource \in RandomIDs
       /\ assigned.resource # ""
       /\ assigned.resource # remote.resource

C7_Witness ==
  /\ Served /\ srv = "nil" /\ flushed /\ ret.err = NoErr
  /\ remote = JID("user", "example.com", "orig")
  /\ written[3].text = <<"user", "@", "example.com", "/", "id1">>

\* C8 as stated: in the receiving role with a server function, Negotiate
\* called with what Parse returned ends by writing the response or by
\* returning the function's error, and never aborts.
C8_Original ==
  (parsed.ok /\ parsed.err = NoErr /\ srv # "nil" /\ data = parsed.data)
    => pc # "panicked"

\* the address assignment of a receiving call failed
AssignmentFailed ==
  /\ Served
  /\ \/ srv = "reject" /\ data.isString
     \/ srv = "assign" /\ data.isString /\ remote.domain = ""
     \/ srv = "nil" /\ remote.domain = ""

\* C9: in the receiving role, a failed address assignment makes Negotiate
\* return the error of the assignment with nothing written and no flush.
C9_FailedAssignmentWritesNothing ==
  AssignmentFailed =>
    /\ ret.err.kind \in {"assign", "jid"}
    /\ written = <<>>
    /\ ~flushed

C9_Witness ==
  /\ AssignmentFailed /\ srv = "reject"
  /\ ret.err = Err("assign", "conflict") /\ written = <<>>

\* C10: in the initiating role, a first token that is no start element, or
\* a start element other than iq in the client namespace, makes Negotiate
\* fail with stream.BadFormat without decoding anything, with the empty
\* mask and session.origin as it was.
C10_UnexpectedTokenIsBadFormat ==
  (Answered /\ inp.kind # "Error" /\ ~IsIQ(inp))
    => /\ ret = Ret(0, BadFormat)
       /\ ~res.decoded
       /\ origin = origin0

C10_Witness ==
  /\ Answered /\ inp.kind = "StartElement" /\ inp.space = NsBind
  /\ ret.err = BadFormat /\ ~res.decoded

\* C11 as stated: when ctx is cancelled while Negotiate waits for the
\* response token, the call returns a failure without the peer sending
\* anything: a step of the call is enabled.
C11_Original ==
  (pc = "await" /\ cancelled /\ inp = NoTok) => ENABLED NegotiateResponse

\* C12: List reports the feature as mandatory on every call, also when it
\* returns an error; on success the encoder has received the given start
\* tag followed by its end tag and has been flushed; when the first write
\* fails the end tag is not written and nothing is flushed.
C12_ListIsMandatoryAndEmpty ==
  pc = "listed" =>
    /\ list.out.req = TRUE
    /\ list.out.err = NoErr =>
         /\ list.out.written =
              << Tok("StartElement", list.start.space, list.start.local, <<>>),
                 Tok("EndElement", list.start.space, list.start.local, <<>>) >>
         /\ list.out.flushed
    /\ list.failAt = 1 =>
         /\ list.out.err # NoErr
         /\ list.out.written = <<>>
         /\ ~list.out.flushed

C12_Witness ==
  /\ pc = "listed" /\ list.failAt = 2
  /\ list.out.req /\ list.out.err = IOErr
  /\ list.out.written = << Tok("StartElement", NsBind, "bind", <<>>) >>

\* C13: in the receiving role every Negotiate call, successful or not,
\* returns the empty mask and no replacement stream, so the session state
\* stays what it was at construction (neither Ready nor Received changes);
\* in both roles the replacement stream returned is none.
C13_ReceivingReturnsNoDelta ==
  /\ Served => (ret.mask = 0 /\ ret.rw = "nil")
  /\ pc = "done" => ret.rw = "nil"
  /\ HasFlag(state0, Received) => state = state0

C13_Witness ==
  /\ pc = "idle" /\ calls = 1 /\ HasFlag(state, Received)
  /\ flushed /\ ret = Ret(0, NoErr)
  /\ state = state0 /\ ~HasFlag(state, Ready)

\* the caller merges Ready into a state that did not have it
ReadyAdded == HasFlag(state', Ready) /\ ~HasFlag(state, Ready)

\* an initiating call has just returned Ready for a decoded result response
\* with the id of its request
BoundNow ==
  /\ Answered /\ ret = Ret(Ready, NoErr)
  /\ IsIQ(inp) /\ Decodes(inp) /\ inp.id = reqID /\ inp.type = "result"

\* C14: over any sequence of Negotiate calls whose masks the caller ORs into
\* the session state, no flag is ever cleared, the only flag added is
\* Ready, Ready is added only after an initiating call that succeeded
\* (matching id, type result), and Received keeps the value it had at
\* construction.
C14_FlagsOnlyGrow ==
  /\ [](/\ And(state, state0) = state0
        /\ state \in {state0, Or(state0, Ready)}
        /\ HasFlag(state, Received) = HasFlag(state0, Received))
  /\ [][And(state', state) = state]_vars
  /\ [][ReadyAdded => BoundNow]_vars

C14_Witness ==
  /\ pc = "idle" /\ calls = 2
  /\ ~HasFlag(state0, Ready) /\ HasFlag(state0, Secure)
  /\ state = Or(state0, Ready)

\* C15: session.origin is written only by an initiating call that succeeds:
\* a call in the receiving role, and an initiating call that returns an
\* error, leave it as it was when the call began.
C15_OriginWrittenOnlyOnSuccess ==
  /\ (pc = "done" /\ (HasFlag(state, Received) \/ ret.err # NoErr)) => origin = origin0
  /\ pc = "await" => origin = origin0
  /\ HasFlag(state, Received) => origin = NilJID

C15_Witness ==
  /\ Answered /\ IsIQ(inp) /\ inp.id = reqID /\ inp.type = "error" /\ inp.hasJID
  /\ ret.err = StanzaError("not-allowed")
  /\ origin0 = JID("user", "example.com", "id1")
  /\ origin = origin0
  /\ Nested(inp) # origin0

\* the positions of io at which op was called
Calls(op) == { i \in 1..Len(io) : io[i].op = op }

\* a failed call is the last call made, and the call returned an error
FailureEndsCall ==
  \A i \in 1..Len(io) : ~io[i].ok => (i = Len(io) /\ pc = "done" /\ ret.err # NoErr)

\* C16: an initiating call makes one Encode, of a "set" request with the
\* generated id, before any read, reads at most one token and decodes at
\* most one element, and makes no further call on the stream after the
\* first one that fails; a receiving call makes no further write after the
\* first write or flush that fails.
C16_NoRetryStrictOrder ==
  /\ (Initiating /\ pc \in {"await", "done"}) =>
       /\ Calls("Encode") = {1}
       /\ \A i \in 2..Len(io) : io[i].op \in {"Token", "DecodeElement"}
       /\ Cardinality(Calls("Token")) <= 1
       /\ Cardinality(Calls("DecodeElement")) <= 1
       /\ \A i \in Calls("DecodeElement") : i - 1 \in Calls("Token")
       /\ written = IF io[1].ok THEN << ClientRequest(reqID, cfgRes) >> ELSE <<>>
       /\ \A k \in 1..Len(written) : written[k].type = "set" /\ written[k].id = reqID
       /\ FailureEndsCall
  /\ Served =>
       /\ FailureEndsCall
       /\ Len(io) <= 6
       /\ Len(written) = Cardinality({ i \in Calls("EncodeToken") : io[i].ok })
       /\ flushed <=> (Len(io) = 6 /\ io[6].ok)

C16_Witness ==
  /\ Answered
  /\ io = << Call("Encode", TRUE), Call("Token", TRUE), Call("DecodeElement", FALSE) >>
  /\ ret.err = Err("jid", "invalid")
  /\ Len(written) = 1

\* an initiating call has read a decoded response with the id of its request
\* whose type is neither result nor error
OtherKindAnswered ==
  /\ Answered /\ IsIQ(inp) /\ Decodes(inp) /\ inp.id = reqID
  /\ inp.type \notin {"result", "error"}

\* the error Negotiate returns for an error response that carries the
\* condition c
RemoteError(c) ==
  Switch([id |-> reqID, type |-> "error", jid |-> NilJID, Err |-> StanzaError(c),
          err |-> NoErr], reqID).err

\* C17 as stated: a response with matching id and a type other than result
\* and error makes Negotiate fail with an error that differs from the
\* correlation error and from the error returned for an error response,
\* for every error detail the peer can send; no Ready, origin unchanged.
C17_Original ==
  OtherKindAnswered =>
    /\ ret.err # NoErr
    /\ ret.err # UndefinedCondition
    /\ \A c \in Conditions : ret.err # RemoteError(c)
    /\ ret.mask = 0
    /\ origin = origin0

\* C17 as amended: such a response makes Negotiate fail with
\* stanza.Error{Condition: BadRequest}, which carries nothing of what the
\* peer sent and differs from the correlation error, and from the error
\* returned for an error response unless that response carries the
\* condition bad-request; no Ready, origin unchanged.
C17_OtherKindIsBadRequest ==
  OtherKindAnswered =>
    /\ ret = Ret(0, StanzaError(BadRequest))
    /\ ret.err # UndefinedCondition
    /\ \A c \in Conditions \ {BadRequest} : ret.err # RemoteError(c)
    /\ origin = origin0

C17_Witness ==
  /\ OtherKindAnswered /\ inp.type = "get" /\ inp.cond = "not-allowed" /\ inp.hasJID
  /\ ret = Ret(0, StanzaError(BadRequest))
  /\ origin = NilJID

\* C18 as stated: whenever an initiating call has returned Ready, the
\* address recorded in session.origin is present (not nil); a result
\* response with the id of the request and no bind/jid child does not yield
\* Ready with a nil address.
C18_Original ==
  (Answered /\ ret = Ret(Ready, NoErr)) => origin # NilJID

\* C19: once Ready is merged into the session state the feature is not
\* applicable in any later state, so under an engine that negotiates only
\* applicable features session.origin is assigned at most once and a bound
\* address is never overwritten; after a failed call the feature is still
\* applicable if it was applicable when the call was made.
C19_BindsAtMostOnce ==
  /\ [](HasFlag(state, Ready) => ~applicable(state))
  /\ [][HasFlag(state, Ready) => HasFlag(state', Ready)]_vars
  /\ [](writes <= 1)
  /\ [][origin # NilJID => origin' = origin]_vars
  /\ []((pc = "idle" /\ calls > 0 /\ ret.err # NoErr /\ app) => applicable(state))

C19_Witness ==
  /\ pc = "idle" /\ calls = 1 /\ app
  /\ writes = 1 /\ origin = JID("user", "example.com", "id2")
  /\ HasFlag(state, Ready) /\ ~HasFlag(state0, Ready)
  /\ ~applicable(state)

====
